---- MODULE Spec2Model ----
(***************************************************************************)
(* A model of the MeteoLux client: the request executor                    *)
(* AsyncMeteoLuxClient._request with its endpoint methods (async_api.py),  *)
(* the exception classes (exceptions.py) and the response schemas with the *)
(* validation that model_validate performs on them (models.py).            *)
(***************************************************************************)
EXTENDS Integers, Sequences, FiniteSets, TLC

VARIABLES
  pc,         \* position of the call: "idle", "awaiting" (suspended at the await), "done"
  call,       \* the request the pending or finished call handed to the transport
  response,   \* what the transport answered: a response, or a transport failure
  outcome,    \* how the call ended: a returned value or a raised exception
  requests,   \* number of transport requests issued by the current call
  base_url,   \* AsyncMeteoLuxClient.base_url
  vin,        \* model construction by the caller: the schema and raw input chosen
  vout,       \* model construction by the caller: the validation result
  record,     \* the object the finished call returned, as the caller holds it now
  frames,     \* concurrent calls: for each task, the locals of its call (its coroutine frame)
  closed      \* whether the httpx client (self.client) has been closed

vars == <<pc, call, response, outcome, requests, base_url, vin, vout, record, frames, closed>>
\* the state of a caller that awaits each call before the next
seq == <<pc, call, response, outcome, requests, vin, vout, record>>
\* the state of concurrent callers
conc == <<frames, closed>>

(***************************************************************************)
(* Python values.  A value is a record tagged with its runtime type.       *)
(* Floats are kept in thousandths (PyFloat(2500) is 2.5) so that bounds such *)
(* as ge=-90.0 can be compared exactly; a string carries its length.       *)
(***************************************************************************)
PyNone == [t |-> "NoneType"]
PyBool(b) == [t |-> "bool", b |-> b]
PyInt(i) == [t |-> "int", i |-> i]
PyFloat(m) == [t |-> "float", m |-> m]
PyStr(s) == [t |-> "str", s |-> s, n |-> Len(s)]
\* a string of n characters, for lengths that cannot be written out
StrOfLen(n) == [t |-> "str", s |-> "x*", n |-> n]
PyList(l) == [t |-> "list", l |-> l]
PyDict(o) == [t |-> "dict", o |-> o]
\* values only validation creates
\* a datetime: seconds since the epoch, thousandths of a second, timezone
PyDatetime(epoch, ms, tz) ==
  [t |-> "datetime", epoch |-> epoch, ms |-> ms, tz |-> tz]
PyDate(y, m, d) == [t |-> "date", y |-> y, m |-> m, d |-> d]
PyModel(cls, f) == [t |-> "model", cls |-> cls, f |-> f]

EmptyDict == PyDict(<<>>)
EmptyList == PyList(<<>>)

\* the value of a number, in thousandths
Milli(v) == IF v.t = "int" THEN v.i * 1000 ELSE v.m

(***************************************************************************)
(* Field types and field declarations of models.py.                        *)
(***************************************************************************)
TInt == [k |-> "int"]
TFloat == [k |-> "float"]
TStr == [k |-> "str"]
TBool == [k |-> "bool"]
TDatetime == [k |-> "datetime"]
TDate == [k |-> "date"]
TModel(m) == [k |-> "model", m |-> m]
TList(e) == [k |-> "list", e |-> e]
TDict(e) == [k |-> "dict", e |-> e]
TOptional(e) == [k |-> "optional", e |-> e]
TUnion(a, b) == [k |-> "union", alts |-> <<a, b>>]
TLiteral(S) == [k |-> "literal", vals |-> S]

\* constraints of Field(...): numeric bounds in thousandths, lengths in characters
Ge(x) == [c |-> "ge", x |-> x]
Le(x) == [c |-> "le", x |-> x]
MinLength(n) == [c |-> "min_length", x |-> n]
MaxLength(n) == [c |-> "max_length", x |-> n]

\* name: type                       (required, wire name = name)
Req(name, type) ==
  [name |-> name, alias |-> name, type |-> type, required |-> TRUE,
   default |-> PyNone, cons |-> {}]
\* name: type = Field(..., alias=alias, <constraints>)
ReqField(name, alias, type, cons) ==
  [name |-> name, alias |-> alias, type |-> type, required |-> TRUE,
   default |-> PyNone, cons |-> cons]
\* name: type = default   /   name: type = Field(default, alias=alias)
Opt(name, alias, type, default) ==
  [name |-> name, alias |-> alias, type |-> type, required |-> FALSE,
   default |-> default, cons |-> {}]

Cantons ==
  {PyStr("Capellen"), PyStr("Clervaux"), PyStr("Diekirch"), PyStr("Echternach"),
   PyStr("Esch-sur-Alzette"), PyStr("Grevenmacher"), PyStr("Luxembourg"), PyStr("Mersch"),
   PyStr("Redange"), PyStr("Remich"), PyStr("Vianden"), PyStr("Wiltz")}

DefaultLicence ==
  PyList(<<PyStr("Creative Commons"), PyStr("https://creativecommons.org/public-domain/cc0/")>>)

Icon == <<Req("id", TInt), Req("name", TStr)>>

Wind ==
  <<Req("direction", TStr), Req("speed", TStr),
    Opt("gusts", "gusts", TOptional(TStr), PyNone)>>

Temperature ==
  <<Req("temperature", TUnion(TInt, TList(TInt))),
    Opt("humidex", "humidex", TOptional(TStr), PyNone),
    Opt("felt", "felt", TOptional(TInt), PyNone)>>

CurrentWeather ==
  <<Req("date", TDatetime), Req("icon", TModel("Icon")), Req("wind", TModel("Wind")),
    Req("rain", TStr), Req("snow", TStr),
    Opt("type", "type", TLiteral({PyStr("current")}), PyStr("current")),
    Req("temperature", TModel("Temperature"))>>

DailyWeather ==
  <<Req("date", TDatetime), Req("icon", TModel("Icon")), Req("wind", TModel("Wind")),
    Req("rain", TStr), Req("snow", TStr),
    Opt("type", "type", TLiteral({PyStr("daily")}), PyStr("daily")),
    ReqField("temperature_min", "temperatureMin", TModel("Temperature"), {}),
    ReqField("temperature_max", "temperatureMax", TModel("Temperature"), {}),
    Req("sunshine", TInt),
    ReqField("uv_index", "uvIndex", TInt, {})>>

HourlyWeather ==
  <<Req("date", TDatetime), Req("icon", TModel("Icon")), Req("wind", TModel("Wind")),
    Req("rain", TStr), Req("snow", TStr),
    Opt("type", "type", TLiteral({PyStr("hourly")}), PyStr("hourly")),
    Req("temperature", TModel("Temperature"))>>

Trend ==
  <<Req("date", TDate),
    ReqField("min_temp", "minTemp", TFloat, {}),
    ReqField("max_temp", "maxTemp", TFloat, {}),
    Req("precipitation", TFloat)>>

Climatology ==
  <<Req("date", TDatetime),
    ReqField("min_temp", "minTemp", TFloat, {}),
    ReqField("max_temp", "maxTemp", TFloat, {}),
    Req("precipitation", TFloat),
    ReqField("mean_temp", "meanTemp", TFloat, {}),
    Opt("sunshine", "sunshine", TOptional(TFloat), PyNone)>>

GraphicalData ==
  <<Req("history", TList(TModel("Climatology"))),
    Req("forecast", TList(TModel("Trend")))>>

Vigilance ==
  <<ReqField("datetime_start", "datetimeStart", TDatetime, {}),
    ReqField("datetime_end", "datetimeEnd", TDatetime, {}),
    Req("level", TLiteral({PyInt(2), PyInt(3), PyInt(4)})),
    Req("type", TInt), Req("group", TInt),
    Req("region", TLiteral({PyStr("north"), PyStr("south"), PyStr("all")})),
    Req("description", TStr)>>

RoadStatusItem ==
  <<Req("date", TUnion(TDate, TList(TStr))), Req("description", TStr)>>

ImageOut ==
  <<Req("date", TDatetime), Req("provider", TStr),
    ReqField("url", "url", TStr, {MaxLength(2083), MinLength(1)})>>

Radar ==
  <<ReqField("real_time", "realTime", TList(TModel("ImageOut")), {}),
    Req("forecast", TList(TModel("ImageOut")))>>

Satellite ==
  <<Req("infrared", TList(TModel("ImageOut"))),
    Req("visual", TList(TModel("ImageOut")))>>

MoonIcon == <<Req("id", TStr), Req("name", TStr)>>

Ephemeris ==
  <<Req("date", TDate), Req("sunrise", TStr), Req("sunset", TStr),
    Req("moonrise", TStr), Req("moonset", TStr), Req("sunshine", TStr),
    ReqField("moon_icon", "moonIcon", TModel("MoonIcon"), {}),
    ReqField("uv_index", "uvIndex", TInt, {Ge(0), Le(12000)})>>

ATCReportForecast == <<Req("hourly", TList(TModel("HourlyWindForecast")))>>

ATCReport == <<Req("forecast", TModel("ATCReportForecast"))>>

HourlyWindForecast ==
  <<Req("date", TDatetime), Req("qnh", TInt), Req("wind", TModel("Wind")),
    Req("wind1500", TModel("Wind")), Req("wind2500", TModel("Wind")),
    Req("wind5000", TModel("Wind")), Req("wind10000", TModel("Wind"))>>

BookmarkCity ==
  <<Req("id", TInt), Req("name", TStr),
    Opt("region", "region", TLiteral({PyStr("N"), PyStr("S")}), PyStr("S")),
    Req("canton", TLiteral(Cantons)),
    Req("domain", TLiteral({PyStr("villes"), PyStr("lieu"), PyStr("fluvial")})),
    Req("lat", TFloat), Req("long", TFloat), Req("temperature", TFloat),
    Req("icon", TModel("Icon"))>>

Bookmarks ==
  <<Req("cities", TList(TModel("BookmarkCity"))),
    Opt("nearest_city", "nearestCity", TOptional(TModel("BookmarkCity")), PyNone)>>

InObservation ==
  <<ReqField("lat", "lat", TFloat, {Ge(-90000), Le(90000)}),
    ReqField("long", "long", TFloat, {Ge(-180000), Le(180000)}),
    ReqField("description", "description", TStr, {MaxLength(1024)}),
    Req("weather", TInt)>>

SensorLevel ==
  <<ReqField("level_type", "levelType", TLiteral({PyStr("height_above_ground")}), {}),
    Req("unit", TLiteral({PyStr("m")})),
    ReqField("value", "value", TFloat, {Ge(0)})>>

ObservationMetadata ==
  <<Req("id", TStr), Req("name", TStr), Req("description", TStr),
    ReqField("data_type", "dataType", TLiteral({PyStr("realtime"), PyStr("climate")}), {}),
    Req("unit", TLiteral({PyStr("m"), PyStr("m/s"), PyStr("%"), PyStr("1/10 kt"), PyStr("degC"),
                          PyStr("degrees"), PyStr("ft"), PyStr("hPa"), PyStr("mm")})),
    Req("category", TLiteral({PyStr("Wind"), PyStr("Cloud Cover"), PyStr("Atmospheric pressure"),
                              PyStr("Precipitation"), PyStr("Temperature"), PyStr("Humidity"),
                              PyStr("Visibility")})),
    ReqField("performance_category", "performanceCategory",
             TLiteral({PyStr("A"), PyStr("B"), PyStr("C"), PyStr("D"), PyStr("E")}), {}),
    Req("qualitycode", TLiteral({PyInt(0), PyInt(1), PyInt(2), PyInt(3), PyInt(4), PyInt(5), PyInt(6), PyInt(7)})),
    Req("timeoffsets", TLiteral({PyStr("PT0H")})),
    Req("timeresolution", TLiteral({PyStr("PT1M"), PyStr("PT1H")})),
    Opt("sensorlevels", "sensorlevels", TOptional(TModel("SensorLevel")), PyNone)>>

ObservationMetadataResponse ==
  <<Opt("licence", "licence", TList(TStr), DefaultLicence),
    Opt("doc_url", "docUrl", TStr, PyStr("/docs")),
    Req("data", TList(TModel("ObservationMetadata"))),
    Opt("total_item_count", "totalItemCount", TInt, PyInt(1)),
    Opt("quality_codes", "qualityCodes", TDict(TStr),
        PyDict([x \in {"0"} |-> PyStr("Value is controlled and found O.K.")])),
    Opt("performance_category", "performanceCategory", TDict(TStr),
        PyDict([x \in {"A"} |-> PyStr("The sensor type fulfills the requirements from WMO/CIMOs on measurement accuracy, calibration and maintenance.")]))>>

ObservationResponseData == <<Req("id", TStr), Req("value", TUnion(TInt, TFloat))>>

ObservationResponse ==
  <<Opt("licence", "licence", TList(TStr), DefaultLicence),
    Opt("doc_url", "docUrl", TStr, PyStr("/docs")),
    Req("data", TList(TModel("ObservationResponseData"))),
    Opt("total_item_count", "totalItemCount", TInt, PyInt(1)),
    Req("timestamp", TDatetime)>>

OutCity ==
  <<Req("id", TInt), Req("name", TStr),
    Opt("region", "region", TLiteral({PyStr("N"), PyStr("S")}), PyStr("S")),
    Req("canton", TLiteral(Cantons)),
    Req("domain", TLiteral({PyStr("villes"), PyStr("lieu"), PyStr("fluvial")})),
    Req("lat", TFloat), Req("long", TFloat)>>

VigilanceSettings ==
  <<Req("level", TLiteral({PyInt(2), PyInt(3), PyInt(4)})),
    Opt("type_air", "typeAir", TBool, PyBool(FALSE)),
    Opt("type_cold", "typeCold", TBool, PyBool(FALSE)),
    Opt("type_flooding", "typeFlooding", TBool, PyBool(FALSE)),
    Opt("type_heat", "typeHeat", TBool, PyBool(FALSE)),
    Opt("type_ice", "typeIce", TBool, PyBool(FALSE)),
    Opt("type_rain", "typeRain", TBool, PyBool(FALSE)),
    Opt("type_snow", "typeSnow", TBool, PyBool(FALSE)),
    Opt("type_storm", "typeStorm", TBool, PyBool(FALSE)),
    Opt("type_wind", "typeWind", TOptional(TBool), PyNone),
    ReqField("zone_north", "zoneNorth", TBool, {}),
    ReqField("zone_south", "zoneSouth", TBool, {})>>

User ==
  <<Req("language", TLiteral({PyStr("fr"), PyStr("de"), PyStr("en"), PyStr("lb")})),
    ReqField("push_token", "pushToken", TStr, {MaxLength(50)}),
    Opt("push_morning", "pushMorning", TBool, PyBool(FALSE)),
    Opt("push_evening", "pushEvening", TBool, PyBool(FALSE)),
    Req("device", TStr), Req("version", TStr), Req("buildversion", TStr),
    Req("vigilance", TModel("VigilanceSettings"))>>

WeatherResponseForecast ==
  <<Req("current", TModel("CurrentWeather")),
    Req("hourly", TList(TModel("HourlyWeather"))),
    Req("daily", TList(TModel("DailyWeather")))>>

WeatherResponse ==
  <<Req("city", TModel("OutCity")),
    Req("forecast", TModel("WeatherResponseForecast")),
    Req("vigilances", TList(TModel("Vigilance"))),
    ReqField("road_status", "roadStatus", TList(TModel("RoadStatusItem")), {}),
    Req("ephemeris", TModel("Ephemeris")),
    Req("radar", TModel("Radar")),
    Req("satellite", TModel("Satellite")),
    Req("data", TModel("GraphicalData"))>>

\* the declared fields of the model class named m
Fields(m) ==
  CASE m = "Icon" -> Icon
    [] m = "Wind" -> Wind
    [] m = "Temperature" -> Temperature
    [] m = "CurrentWeather" -> CurrentWeather
    [] m = "DailyWeather" -> DailyWeather
    [] m = "HourlyWeather" -> HourlyWeather
    [] m = "Trend" -> Trend
    [] m = "Climatology" -> Climatology
    [] m = "GraphicalData" -> GraphicalData
    [] m = "Vigilance" -> Vigilance
    [] m = "RoadStatusItem" -> RoadStatusItem
    [] m = "ImageOut" -> ImageOut
    [] m = "Radar" -> Radar
    [] m = "Satellite" -> Satellite
    [] m = "MoonIcon" -> MoonIcon
    [] m = "Ephemeris" -> Ephemeris
    [] m = "ATCReportForecast" -> ATCReportForecast
    [] m = "ATCReport" -> ATCReport
    [] m = "HourlyWindForecast" -> HourlyWindForecast
    [] m = "BookmarkCity" -> BookmarkCity
    [] m = "Bookmarks" -> Bookmarks
    [] m = "InObservation" -> InObservation
    [] m = "SensorLevel" -> SensorLevel
    [] m = "ObservationMetadata" -> ObservationMetadata
    [] m = "ObservationMetadataResponse" -> ObservationMetadataResponse
    [] m = "ObservationResponseData" -> ObservationResponseData
    [] m = "ObservationResponse" -> ObservationResponse
    [] m = "OutCity" -> OutCity
    [] m = "VigilanceSettings" -> VigilanceSettings
    [] m = "User" -> User
    [] m = "WeatherResponseForecast" -> WeatherResponseForecast
    [] m = "WeatherResponse" -> WeatherResponse


(***************************************************************************)
(* Validation: what response_model.model_validate(data) computes.  The     *)
(* result is a value, or the set of errors (type, location) the raised     *)
(* pydantic ValidationError lists.                                         *)
(***************************************************************************)
Ok(v) == [ok |-> TRUE, val |-> v]
Errs(S) == [ok |-> FALSE, errs |-> S]
Err(type, loc) == Errs({[type |-> type, loc |-> loc]})

\* the position of a list element, as it appears in an error location
IdxStr(i) ==
  CASE i = 0 -> "0" [] i = 1 -> "1" [] i = 2 -> "2" [] i = 3 -> "3" [] OTHER -> "n"

\* strings that read as numbers (value in thousandths)
ParseNumber(s) ==
  CASE s = "1013" -> Ok(1013000)
    [] s = "25" -> Ok(25000)
    [] s = "2.5" -> Ok(2500)
    [] OTHER -> Errs({})

\* strings that read as ISO 8601 datetimes
ParseDatetime(s) ==
  CASE s = "2025-08-02T10:00:00Z" -> Ok(PyDatetime(1754128800, 0, "UTC"))
    [] s = "2025-08-02T16:00:00+02:00" -> Ok(PyDatetime(1754143200, 0, "+02:00"))
    [] s = "2025-08-02T00:00:00+02:00" -> Ok(PyDatetime(1754085600, 0, "+02:00"))
    [] s = "2025-08-03T00:00:00+02:00" -> Ok(PyDatetime(1754172000, 0, "+02:00"))
    [] OTHER -> Errs({})

\* strings that read as ISO 8601 dates
ParseDate(s) ==
  CASE s = "2025-08-02" -> Ok(PyDate(2025, 8, 2))
    [] s = "2025-08-03" -> Ok(PyDate(2025, 8, 3))
    [] OTHER -> Errs({})

validate_int(v, loc) ==
  CASE v.t = "int" -> Ok(v)
    [] v.t = "bool" -> Ok(PyInt(IF v.b THEN 1 ELSE 0))
    [] v.t = "float" ->
         IF v.m % 1000 = 0 THEN Ok(PyInt(v.m \div 1000)) ELSE Err("int_from_float", loc)
    [] v.t = "str" ->
         LET p == ParseNumber(v.s)
         IN IF p.ok /\ p.val % 1000 = 0 THEN Ok(PyInt(p.val \div 1000))
            ELSE Err("int_parsing", loc)
    [] OTHER -> Err("int_type", loc)

validate_float(v, loc) ==
  CASE v.t = "float" -> Ok(v)
    [] v.t = "int" -> Ok(PyFloat(v.i * 1000))
    [] v.t = "bool" -> Ok(PyFloat(IF v.b THEN 1000 ELSE 0))
    [] v.t = "str" ->
         LET p == ParseNumber(v.s)
         IN IF p.ok THEN Ok(PyFloat(p.val)) ELSE Err("float_parsing", loc)
    [] OTHER -> Err("float_type", loc)

validate_str(v, loc) ==
  IF v.t = "str" THEN Ok(v) ELSE Err("string_type", loc)

\* the strings that read as True and as False: 1/on/t/true/y/yes and
\* 0/off/f/false/n/no, in any case
TrueStrings ==
  {
    "1", "ON", "On", "oN", "on", "T", "t", "TRUE", "TRUe", "TRuE", "TRue", "TrUE",
    "TrUe", "TruE", "True", "tRUE", "tRUe", "tRuE", "tRue", "trUE", "trUe", "truE",
    "true", "Y", "y", "YES", "YEs", "YeS", "Yes", "yES", "yEs", "yeS", "yes"}
FalseStrings ==
  {
    "0", "OFF", "OFf", "OfF", "Off", "oFF", "oFf", "ofF", "off", "F", "f", "FALSE",
    "FALSe", "FALsE", "FALse", "FAlSE", "FAlSe", "FAlsE", "FAlse", "FaLSE", "FaLSe",
    "FaLsE", "FaLse", "FalSE", "FalSe", "FalsE", "False", "fALSE", "fALSe", "fALsE",
    "fALse", "fAlSE", "fAlSe", "fAlsE", "fAlse", "faLSE", "faLSe", "faLsE", "faLse",
    "falSE", "falSe", "falsE", "false", "N", "n", "NO", "No", "nO", "no"}

validate_bool(v, loc) ==
  CASE v.t = "bool" -> Ok(v)
    [] v.t = "int" ->
         IF v.i \in {0, 1} THEN Ok(PyBool(v.i = 1)) ELSE Err("bool_parsing", loc)
    [] v.t = "float" ->
         IF v.m \in {0, 1000} THEN Ok(PyBool(v.m = 1000))
         ELSE IF v.m % 1000 = 0 THEN Err("bool_parsing", loc)
         ELSE Err("bool_type", loc)
    [] v.t = "str" ->
         IF v.s \in TrueStrings THEN Ok(PyBool(TRUE))
         ELSE IF v.s \in FalseStrings THEN Ok(PyBool(FALSE))
         ELSE Err("bool_parsing", loc)
    [] OTHER -> Err("bool_type", loc)

\* the datetime of a timestamp of m thousandths of a second: the whole seconds
\* are rounded down and the fraction is added without its sign (-0.001 reads
\* as 1969-12-31T23:59:59.001Z)
FromTimestamp(m) ==
  PyDatetime(m \div 1000, IF m < 0 THEN (-m) % 1000 ELSE m % 1000, "UTC")

\* the offset of a timezone from UTC, in seconds
UtcOffset(tz) == IF tz = "+02:00" THEN 7200 ELSE 0

\* the calendar date that starts n days after 1970-01-01
DateOfDays(n) ==
  CASE n = 0 -> PyDate(1970, 1, 1)
    [] n = 20302 -> PyDate(2025, 8, 2)
    [] n = 20303 -> PyDate(2025, 8, 3)
    [] OTHER -> [t |-> "date", days |-> n]

validate_datetime(v, loc) ==
  CASE v.t = "str" ->
         LET p == ParseDatetime(v.s)
             n == ParseNumber(v.s)
             d == ParseDate(v.s)
         IN IF p.ok THEN p
            ELSE IF n.ok THEN Ok(FromTimestamp(n.val))
            ELSE IF d.ok THEN Ok([t |-> "datetime", date |-> d.val, tz |-> "naive"])
            ELSE Err("datetime_from_date_parsing", loc)
    [] v.t = "int" -> Ok(PyDatetime(v.i, 0, "UTC"))
    [] v.t = "float" -> Ok(FromTimestamp(v.m))
    [] OTHER -> Err("datetime_type", loc)

\* a datetime is a date only when its time, in its own timezone, is midnight
\* exactly: 86400 seconds in a day
validate_date(v, loc) ==
  CASE v.t = "str" ->
         LET d == ParseDate(v.s)
             p == ParseDatetime(v.s)
             n == ParseNumber(v.s)
             local == p.val.epoch + UtcOffset(p.val.tz)
         IN IF d.ok THEN d
            ELSE IF p.ok
            THEN IF local % 86400 = 0 /\ p.val.ms = 0 THEN Ok(DateOfDays(local \div 86400))
                 ELSE Err("date_from_datetime_inexact", loc)
            ELSE IF n.ok
            THEN IF n.val % 86400000 = 0 THEN Ok(DateOfDays(n.val \div 86400000))
                 ELSE Err("date_from_datetime_inexact", loc)
            ELSE Err("date_from_datetime_parsing", loc)
    [] v.t = "int" ->
         IF v.i % 86400 # 0 THEN Err("date_from_datetime_inexact", loc)
         ELSE Ok(DateOfDays(v.i \div 86400))
    [] v.t = "float" ->
         IF v.m % 86400000 # 0 THEN Err("date_from_datetime_inexact", loc)
         ELSE Ok(DateOfDays(v.m \div 86400000))
    [] OTHER -> Err("date_type", loc)

\* v == x, as Python compares an input with a value of a Literal: numbers
\* (bool, int, float) by their value, a string with strings only
PyEq(x, v) ==
  LET num(y) == y.t \in {"bool", "int", "float"}
      milli(y) == CASE y.t = "bool" -> (IF y.b THEN 1000 ELSE 0)
                    [] y.t = "int" -> y.i * 1000
                    [] y.t = "float" -> y.m
  IN IF num(x) /\ num(v) THEN milli(x) = milli(v) ELSE x = v

\* the member of the Literal the input is equal to is the result
validate_literal(vals, v, loc) ==
  LET hit == {x \in vals : PyEq(x, v)}
  IN IF hit # {} THEN Ok(CHOOSE x \in hit : TRUE) ELSE Err("literal_error", loc)

\* the tag of a union member in an error location
TypeName(ty) ==
  CASE ty.k = "list" -> IF ty.e.k = "int" THEN "list[int]" ELSE "list[str]"
    [] OTHER -> ty.k

\* strict mode, as the first pass of a smart union applies it to a member
RECURSIVE StrictMatch(_, _)
StrictMatch(ty, v) ==
  CASE ty.k = "int" -> v.t = "int"
    [] ty.k = "float" -> v.t \in {"float", "int"}
    [] ty.k = "str" -> v.t = "str"
    [] ty.k = "date" -> FALSE
    [] ty.k = "list" ->
         v.t = "list" /\ \A i \in 1..Len(v.l) : StrictMatch(ty.e, v.l[i])
    [] OTHER -> FALSE

\* variant: the bounds taken as exclusive
CheckConstraints_exclusive(cons, val, loc) ==
  LET broken(c) ==
        CASE c.c = "ge" -> Milli(val) <= c.x
          [] c.c = "le" -> Milli(val) >= c.x
          [] c.c = "min_length" -> val.n <= c.x
          [] c.c = "max_length" -> val.n >= c.x
      name(c) ==
        CASE c.c = "ge" -> "greater_than_equal"
          [] c.c = "le" -> "less_than_equal"
          [] c.c = "min_length" -> "string_too_short"
          [] c.c = "max_length" -> "string_too_long"
      bad == {c \in cons : broken(c)}
  IN IF bad = {} THEN Ok(val)
     ELSE Errs({[type |-> name(c), loc |-> loc] : c \in bad})

\* the constraints of a field, applied to the converted value
CheckConstraints(cons, val, loc) ==
  LET broken(c) ==
        CASE c.c = "ge" -> Milli(val) < c.x
          [] c.c = "le" -> Milli(val) > c.x
          [] c.c = "min_length" -> val.n < c.x
          [] c.c = "max_length" -> val.n > c.x
      name(c) ==
        CASE c.c = "ge" -> "greater_than_equal"
          [] c.c = "le" -> "less_than_equal"
          [] c.c = "min_length" -> "string_too_short"
          [] c.c = "max_length" -> "string_too_long"
      bad == {c \in cons : broken(c)}
  IN IF bad = {} THEN Ok(val)
     ELSE Errs({[type |-> name(c), loc |-> loc] : c \in bad})

\* the results of the parts of a value put together: all errors are collected
Collect(rs) ==
  UNION {rs[i].errs : i \in {j \in DOMAIN rs : ~rs[j].ok}}

\* variant: a field looked up under its internal name
LookupKey_by_name(f) == f.name

\* the wire name under which a field is looked up
LookupKey(f) == f.alias

RECURSIVE validate_type(_, _, _)
RECURSIVE validate_model(_, _, _)

\* variant: the members tried in order in lax mode, the first that accepts the input wins
validate_union_left_to_right(alts, v, loc) ==
  LET lax == [i \in DOMAIN alts |-> validate_type(alts[i], v, loc \o <<TypeName(alts[i])>>)]
      pass == {i \in DOMAIN alts : lax[i].ok}
      first(S) == CHOOSE i \in S : \A j \in S : i <= j
  IN IF pass # {} THEN lax[first(pass)] ELSE Errs(Collect(lax))

\* a smart union: a member the input matches strictly wins, else the first
\* member that accepts it in lax mode
validate_union(alts, v, loc) ==
  LET strict == {i \in DOMAIN alts : StrictMatch(alts[i], v)}
      lax == [i \in DOMAIN alts |-> validate_type(alts[i], v, loc \o <<TypeName(alts[i])>>)]
      pass == {i \in DOMAIN alts : lax[i].ok}
      first(S) == CHOOSE i \in S : \A j \in S : i <= j
  IN IF strict # {} THEN validate_type(alts[first(strict)], v, loc)
     ELSE IF pass # {} THEN lax[first(pass)]
     ELSE Errs(Collect(lax))

validate_type(ty, v, loc) ==
  CASE ty.k = "int" -> validate_int(v, loc)
    [] ty.k = "float" -> validate_float(v, loc)
    [] ty.k = "str" -> validate_str(v, loc)
    [] ty.k = "bool" -> validate_bool(v, loc)
    [] ty.k = "datetime" -> validate_datetime(v, loc)
    [] ty.k = "date" -> validate_date(v, loc)
    [] ty.k = "literal" -> validate_literal(ty.vals, v, loc)
    [] ty.k = "model" -> validate_model(ty.m, v, loc)
    [] ty.k = "optional" ->
         IF v.t = "NoneType" THEN Ok(PyNone) ELSE validate_type(ty.e, v, loc)
    [] ty.k = "union" -> validate_union(ty.alts, v, loc)
    [] ty.k = "list" ->
         IF v.t # "list" THEN Err("list_type", loc)
         ELSE LET rs == [i \in 1..Len(v.l) |->
                          validate_type(ty.e, v.l[i], loc \o <<IdxStr(i - 1)>>)]
              IN IF Collect(rs) = {} THEN Ok(PyList([i \in 1..Len(v.l) |-> rs[i].val]))
                 ELSE Errs(Collect(rs))
    [] ty.k = "dict" ->
         IF v.t # "dict" THEN Err("dict_type", loc)
         ELSE LET rs == [x \in DOMAIN v.o |-> validate_type(ty.e, v.o[x], loc \o <<x>>)]
              IN IF Collect(rs) = {} THEN Ok(PyDict([x \in DOMAIN v.o |-> rs[x].val]))
                 ELSE Errs(Collect(rs))

\* variant: an absent field takes its default even when it is required
validate_field_default_when_absent(f, o, loc) ==
  IF LookupKey(f) \in DOMAIN o
  THEN LET r == validate_type(f.type, o[LookupKey(f)], loc \o <<LookupKey(f)>>)
       IN IF r.ok THEN CheckConstraints(f.cons, r.val, loc \o <<LookupKey(f)>>) ELSE r
  ELSE Ok(f.default)

\* one declared field of an object: looked up under its wire name; absent and
\* required is an error, absent and optional takes the default
validate_field(f, o, loc) ==
  IF LookupKey(f) \in DOMAIN o
  THEN LET r == validate_type(f.type, o[LookupKey(f)], loc \o <<LookupKey(f)>>)
       IN IF r.ok THEN CheckConstraints(f.cons, r.val, loc \o <<LookupKey(f)>>) ELSE r
  ELSE IF f.required THEN Err("missing", loc \o <<LookupKey(f)>>)
  ELSE Ok(f.default)

validate_model(m, v, loc) ==
  IF v.t # "dict" THEN Err("model_type", loc)
  ELSE LET fs == Fields(m)
           rs == [i \in DOMAIN fs |-> validate_field(fs[i], v.o, loc)]
           names == {fs[i].name : i \in DOMAIN fs}
           at(n) == CHOOSE i \in DOMAIN fs : fs[i].name = n
       IN IF Collect(rs) = {} THEN Ok(PyModel(m, [n \in names |-> rs[at(n)].val]))
          ELSE Errs(Collect(rs))

\* response_model.model_validate(data)
model_validate(m, data) == validate_model(m, data, <<>>)


\* model.model_dump(by_alias=...): a validated record back to plain values
RECURSIVE model_dump(_, _)
model_dump(v, by_alias) ==
  CASE v.t = "model" ->
         LET fs == Fields(v.cls)
             key(i) == IF by_alias THEN fs[i].alias ELSE fs[i].name
             at(x) == CHOOSE i \in DOMAIN fs : key(i) = x
         IN PyDict([x \in {key(i) : i \in DOMAIN fs} |->
                      model_dump(v.f[fs[at(x)].name], by_alias)])
    [] v.t = "list" -> PyList([i \in 1..Len(v.l) |-> model_dump(v.l[i], by_alias)])
    [] v.t = "dict" -> PyDict([x \in DOMAIN v.o |-> model_dump(v.o[x], by_alias)])
    [] OTHER -> v

(***************************************************************************)
(* The exceptions of exceptions.py, and those of httpx, json and pydantic  *)
(* that reach the caller.                                                  *)
(***************************************************************************)
NotFoundError(detail) ==
  [cls |-> "meteolux.exceptions.NotFoundError", detail |-> detail]
ValidationError(detail) ==
  [cls |-> "meteolux.exceptions.ValidationError", detail |-> detail]
HTTPValidationError(detail) ==
  [cls |-> "meteolux.exceptions.HTTPValidationError", detail |-> detail]
HTTPError(status_code, detail) ==
  [cls |-> "meteolux.exceptions.HTTPError", status_code |-> status_code, detail |-> detail]
\* the classes that derive from MeteoLuxError
MeteoLuxError ==
  {"meteolux.exceptions.MeteoLuxError", "meteolux.exceptions.NotFoundError",
   "meteolux.exceptions.ValidationError", "meteolux.exceptions.HTTPValidationError",
   "meteolux.exceptions.HTTPError"}

\* httpx.HTTPStatusError, raised by response.raise_for_status(): it carries the response
HTTPStatusError(resp) == [cls |-> "httpx.HTTPStatusError", response |-> resp]
\* the subclasses of httpx.RequestError a failing transport raises
RequestErrors == {"httpx.ConnectError", "httpx.ConnectTimeout", "httpx.ReadTimeout"}
RequestError(cls) == [cls |-> cls]
JSONDecodeError == [cls |-> "json.JSONDecodeError"]
PydanticValidationError(errs) == [cls |-> "pydantic.ValidationError", errors |-> errs]

(***************************************************************************)
(* Responses.  A body is a text: either the JSON text of a value, or a     *)
(* text that is no JSON document.                                          *)
(***************************************************************************)
JsonText(v) == [fmt |-> "json", v |-> v]
PlainText(s) == [fmt |-> "text", s |-> s]
Response(status_code, body) ==
  [kind |-> "response", status_code |-> status_code, text |-> body]
TransportFailure(exc) == [kind |-> "failure", exc |-> exc]
NoResponse == [kind |-> "none"]

\* response.json(): the decoded value, or the decoder's error
response_json(resp) ==
  IF resp.text.fmt = "json" THEN Ok(resp.text.v) ELSE Errs({})

\* variant: raise_for_status() raising for the 4xx and 5xx statuses only
is_success_below_400(status_code) == status_code < 400

\* response.is_success, the test of response.raise_for_status()
is_success(status_code) == status_code >= 200 /\ status_code <= 299

Return(v) == [kind |-> "return", val |-> v]
Raise(e) == [kind |-> "raise", exc |-> e]
NoOutcome == [kind |-> "none"]

\* variant: the handler without its 404 case
except_HTTPStatusError_reraise(resp) == Raise(HTTPStatusError(resp))

\* variant: the handler wrapping the other statuses in the library's HTTPError
except_HTTPStatusError_wrap(resp) ==
  IF resp.status_code = 404 THEN Raise(NotFoundError(resp.text))
  ELSE Raise(HTTPError(resp.status_code, resp.text))

\* except httpx.HTTPStatusError as exc
except_HTTPStatusError(resp) ==
  IF resp.status_code = 404 THEN Raise(NotFoundError(resp.text))
  ELSE Raise(HTTPStatusError(resp))

\* variant: a body that does not decode is returned as text
parse_body_text_fallback(response_model, resp) ==
  LET data == response_json(resp)
  IN IF ~data.ok THEN Return(resp.text)
     ELSE IF response_model # "None"
     THEN LET r == model_validate(response_model, data.val)
          IN IF r.ok THEN Return(r.val) ELSE Raise(PydanticValidationError(r.errs))
     ELSE Return(data.val)

\* data = response.json(); validate against response_model when one is given
parse_body(response_model, resp) ==
  LET data == response_json(resp)
  IN IF ~data.ok THEN Raise(JSONDecodeError)
     ELSE IF response_model # "None"
     THEN LET r == model_validate(response_model, data.val)
          IN IF r.ok THEN Return(r.val) ELSE Raise(PydanticValidationError(r.errs))
     ELSE Return(data.val)

\* variant: _request without the 204 case
request_result_parse_204(response_model, resp) ==
  IF ~is_success(resp.status_code) THEN except_HTTPStatusError(resp)
  ELSE parse_body(response_model, resp)

\* _request, from the point where the awaited transport call has answered
request_result(response_model, resp) ==
  IF ~is_success(resp.status_code) THEN except_HTTPStatusError(resp)
  ELSE IF resp.status_code = 204 THEN Return(PyNone)
  ELSE parse_body(response_model, resp)

\* variant: stream_image going through _request
stream_image_result_via_request(resp) == request_result("None", resp)

\* return await self.client.get(endpoint, timeout=10.0): the response itself
stream_image_result(resp) == Return(resp)

\* variant: a failed request is sent again
except_RequestError_retry(exc, n) ==
  [pc |-> "awaiting", outcome |-> NoOutcome, requests |-> n + 1]

\* except httpx.RequestError: raise
except_RequestError(exc, n) ==
  [pc |-> "done", outcome |-> Raise(exc), requests |-> n]


(***************************************************************************)
(* The inputs explored: for every schema a well-formed object (those of    *)
(* tests/test_basic.py, with lists filled in), and every object obtained   *)
(* from it by one edit: a key or list element removed, a value replaced,   *)
(* an undeclared key added.                                                *)
(***************************************************************************)
\* number of elements in each list of the well-formed objects
ListLen == 1
\* number of fields of a returned record the caller assigns to
MaxAssign == 1

Rep(x) == [i \in 1..ListLen |-> x]

IdxOf(s) == CHOOSE i \in 0..3 : IdxStr(i) = s

RECURSIVE PathsOf(_)
PathsOf(v) ==
  CASE v.t = "dict" ->
         UNION {{<<x>>} \cup {<<x>> \o q : q \in PathsOf(v.o[x])} : x \in DOMAIN v.o}
    [] v.t = "list" ->
         UNION {{<<IdxStr(i - 1)>>} \cup {<<IdxStr(i - 1)>> \o q : q \in PathsOf(v.l[i])}
                : i \in 1..Len(v.l)}
    [] OTHER -> {}

\* the value at path q of v
RECURSIVE Get(_, _)
Get(v, q) ==
  IF q = <<>> THEN v
  ELSE IF v.t = "dict" THEN Get(v.o[Head(q)], Tail(q))
  ELSE Get(v.l[IdxOf(Head(q)) + 1], Tail(q))

\* v with the value at path q set to x (a key of a dict is added when absent)
RECURSIVE Put(_, _, _)
Put(v, q, x) ==
  IF q = <<>> THEN x
  ELSE IF v.t = "dict"
  THEN PyDict([y \in DOMAIN v.o \cup {Head(q)} |->
                 IF y = Head(q)
                 THEN IF Len(q) = 1 THEN x ELSE Put(v.o[y], Tail(q), x)
                 ELSE v.o[y]])
  ELSE PyList([i \in 1..Len(v.l) |->
                 IF IdxStr(i - 1) = Head(q) THEN Put(v.l[i], Tail(q), x) ELSE v.l[i]])

\* v with the key or list element at path q removed
RECURSIVE Del(_, _)
Del(v, q) ==
  IF v.t = "dict"
  THEN IF Len(q) = 1 THEN PyDict([y \in DOMAIN v.o \ {Head(q)} |-> v.o[y]])
       ELSE PyDict([y \in DOMAIN v.o |->
                      IF y = Head(q) THEN Del(v.o[y], Tail(q)) ELSE v.o[y]])
  ELSE IF Len(q) = 1
       THEN PyList([i \in 1..(Len(v.l) - 1) |->
                      IF i <= IdxOf(Head(q)) THEN v.l[i] ELSE v.l[i + 1]])
       ELSE PyList([i \in 1..Len(v.l) |->
                      IF IdxStr(i - 1) = Head(q) THEN Del(v.l[i], Tail(q)) ELSE v.l[i]])

\* values put in place of any value of a well-formed object
Palette == {PyInt(5), PyStr("S"), PyNone, EmptyList, EmptyDict}

\* the objects one edit away from base; more is a set of <<path, value>> replacements
Variants(base, more) ==
  LET ps == PathsOf(base)
      dicts == {<<>>} \cup {q \in ps : Get(base, q).t = "dict"}
  IN {base}
     \cup {Del(base, q) : q \in ps}
     \cup {Put(base, q, x) : q \in ps, x \in Palette}
     \cup {Put(base, q \o <<"extra">>, PyStr("S")) : q \in dicts}
     \cup {Put(base, e[1], e[2]) : e \in more}

WindOf(direction, speed) == PyDict([direction |-> PyStr(direction), speed |-> PyStr(speed)])
IconSun == PyDict([id |-> PyInt(1), name |-> PyStr("sun")])

AtcReportData ==
  PyDict([forecast |-> PyDict([hourly |-> PyList(Rep(PyDict(
    [date |-> PyStr("2025-08-02T10:00:00Z"), qnh |-> PyInt(1013),
     wind |-> WindOf("S", "10kt"), wind1500 |-> WindOf("S", "12kt"),
     wind2500 |-> WindOf("SW", "15kt"), wind5000 |-> WindOf("W", "20kt"),
     wind10000 |-> WindOf("NW", "25kt")])))])])

AtcReportEdits ==
  {<<<<"forecast", "hourly", "0", "qnh">>, x>> :
     x \in {PyStr("1013"), PyFloat(1013000), PyFloat(2500)}}

CityData ==
  PyDict([id |-> PyInt(1), name |-> PyStr("Luxembourg"), region |-> PyStr("S"),
          canton |-> PyStr("Luxembourg"), domain |-> PyStr("villes"),
          lat |-> PyFloat(49500), long |-> PyFloat(6250),
          temperature |-> PyFloat(20500), icon |-> IconSun])

BookmarksData == PyDict([cities |-> PyList(Rep(CityData)), nearestCity |-> CityData])

BookmarksEdits ==
  {<<<<"nearestCity", "lat">>, PyInt(49)>>, <<<<"nearestCity", "nearest_city">>, PyStr("S")>>,
   <<<<"nearest_city">>, CityData>>}

MetadataData ==
  PyDict([licence |-> DefaultLicence, docUrl |-> PyStr("/docs"),
          data |-> PyList(Rep(PyDict(
            [id |-> PyStr("air_temperature"), name |-> PyStr("Air Temperature"),
             description |-> PyStr("Temperature of the air at 2 m height"),
             dataType |-> PyStr("realtime"), unit |-> PyStr("degC"),
             category |-> PyStr("Temperature"), performanceCategory |-> PyStr("A"),
             qualitycode |-> PyInt(0), timeoffsets |-> PyStr("PT0H"),
             timeresolution |-> PyStr("PT1M"),
             sensorlevels |-> PyDict([levelType |-> PyStr("height_above_ground"),
                                      unit |-> PyStr("m"), value |-> PyFloat(2000)])]))),
          totalItemCount |-> PyInt(1),
          qualityCodes |-> PyDict([x \in {"0"} |-> PyStr("Value is controlled and found O.K.")]),
          performanceCategory |-> PyDict([x \in {"A"} |-> PyStr("The sensor type fulfills the requirements.")])])

MetadataEdits ==
  {<<<<"data", "0", "sensorlevels", "value">>, x>> : x \in {PyFloat(-1), PyFloat(0), PyInt(0)}}
  \cup {<<<<"totalItemCount">>, PyInt(7)>>, <<<<"total_item_count">>, PyInt(7)>>,
        <<<<"docUrl">>, PyStr("/redoc")>>}

ObservationsData ==
  PyDict([data |-> PyList(Rep(PyDict([id |-> PyStr("air_temperature"), value |-> PyFloat(20500)]))),
          totalItemCount |-> PyInt(1), timestamp |-> PyStr("2025-08-02T10:00:00Z")])

ObservationsEdits ==
  {<<<<"data", "0", "value">>, x>> : x \in {PyInt(20), PyFloat(20000), PyStr("2.5")}}

TemperatureOf(x) == PyDict([temperature |-> x, humidex |-> PyNone, felt |-> PyInt(26)])

ImageData ==
  PyDict([date |-> PyStr("2025-08-02T10:00:00Z"), provider |-> PyStr("meteolux"),
          url |-> PyStr("https://metapi.ana.lu/img.png")])

WeatherData ==
  PyDict(
    [city |-> PyDict([id |-> PyInt(1), name |-> PyStr("Luxembourg"), region |-> PyStr("S"),
                      canton |-> PyStr("Luxembourg"), domain |-> PyStr("villes"),
                      lat |-> PyFloat(49500), long |-> PyFloat(6250)]),
     forecast |-> PyDict(
       [current |-> PyDict(
          [date |-> PyStr("2025-08-02T16:00:00+02:00"), icon |-> IconSun,
           wind |-> PyDict([direction |-> PyStr("S"), speed |-> PyStr("10kt"),
                            gusts |-> PyStr("15kt")]),
           rain |-> PyStr("0.0 mm"), snow |-> PyStr("0.0 cm"), type |-> PyStr("current"),
           temperature |-> TemperatureOf(PyInt(25))]),
        hourly |-> PyList(Rep(PyDict(
          [date |-> PyStr("2025-08-02T16:00:00+02:00"), icon |-> IconSun,
           wind |-> WindOf("S", "10kt"), rain |-> PyStr("0.0 mm"), snow |-> PyStr("0.0 cm"),
           temperature |-> PyDict([temperature |-> PyList(<<PyInt(24), PyInt(26)>>)])]))),
        daily |-> PyList(Rep(PyDict(
          [date |-> PyStr("2025-08-03T00:00:00+02:00"), icon |-> IconSun,
           wind |-> WindOf("W", "20kt"), rain |-> PyStr("1.0 mm"), snow |-> PyStr("0.0 cm"),
           type |-> PyStr("daily"),
           temperatureMin |-> PyDict([temperature |-> PyInt(14)]),
           temperatureMax |-> PyDict([temperature |-> PyInt(27)]),
           sunshine |-> PyInt(9), uvIndex |-> PyInt(6)])))]),
     vigilances |-> PyList(Rep(PyDict(
       [datetimeStart |-> PyStr("2025-08-02T00:00:00+02:00"),
        datetimeEnd |-> PyStr("2025-08-03T00:00:00+02:00"),
        level |-> PyInt(2), type |-> PyInt(1), group |-> PyInt(1),
        region |-> PyStr("all"), description |-> PyStr("Yellow alert for storms.")]))),
     roadStatus |-> PyList(Rep(PyDict(
       [date |-> PyStr("2025-08-02"), description |-> PyStr("Roadworks")]))),
     ephemeris |-> PyDict(
       [date |-> PyStr("2025-08-02"), sunrise |-> PyStr("05:59"), sunset |-> PyStr("21:00"),
        moonrise |-> PyStr("12:00"), moonset |-> PyStr("02:00"), sunshine |-> PyStr("PT15H1M"),
        moonIcon |-> PyDict([id |-> PyStr("full"), name |-> PyStr("Full Moon")]),
        uvIndex |-> PyInt(5)]),
     radar |-> PyDict([realTime |-> PyList(Rep(ImageData)), forecast |-> EmptyList]),
     satellite |-> PyDict([infrared |-> EmptyList, visual |-> PyList(Rep(ImageData))]),
     data |-> PyDict(
       [history |-> PyList(Rep(PyDict(
          [date |-> PyStr("2025-08-02T10:00:00Z"), minTemp |-> PyFloat(12500),
           maxTemp |-> PyFloat(24000), precipitation |-> PyFloat(0),
           meanTemp |-> PyInt(18)]))),
        forecast |-> PyList(Rep(PyDict(
          [date |-> PyStr("2025-08-03"), minTemp |-> PyFloat(13000),
           maxTemp |-> PyFloat(25500), precipitation |-> PyFloat(1500)])))])])

WeatherEdits ==
  {<<<<"forecast", "current", "temperature", "temperature">>, x>> :
     x \in {PyList(<<PyInt(24), PyInt(26)>>), PyList(<<PyInt(25)>>), PyStr("25"),
            PyList(<<PyStr("S")>>), PyFloat(2500)}}
  \cup {<<<<"forecast", "hourly", "0", "temperature", "temperature">>, PyInt(24)>>}
  \cup {<<<<"roadStatus", "0", "date">>, x>> :
          x \in {PyList(<<PyStr("2025-08-02")>>), PyList(<<PyStr("A4"), PyStr("A6")>>),
                 PyStr("2025-08-03"), PyList(<<PyInt(5)>>)}}
  \cup {<<<<"ephemeris", "uvIndex">>, x>> :
          x \in {PyInt(-1), PyInt(0), PyInt(12), PyInt(13), PyFloat(12000)}}
  \cup {<<<<"radar", "realTime", "0", "url">>, x>> :
          x \in {PyStr(""), PyStr("u"), StrOfLen(2082), StrOfLen(2083), StrOfLen(2084)}}

InObservationData ==
  PyDict([lat |-> PyFloat(49500), long |-> PyFloat(6250),
          description |-> PyStr("light rain"), weather |-> PyInt(3)])

InObservationEdits ==
  {<<<<"lat">>, x>> : x \in {PyFloat(-90001), PyFloat(-90000), PyFloat(90000), PyFloat(90001),
                             PyInt(-91), PyInt(-90), PyInt(90), PyInt(91)}}
  \cup {<<<<"long">>, x>> : x \in {PyFloat(-180001), PyFloat(-180000), PyFloat(180000),
                                   PyFloat(180001), PyInt(180), PyInt(181)}}
  \cup {<<<<"description">>, x>> : x \in {PyStr(""), StrOfLen(1023), StrOfLen(1024), StrOfLen(1025)}}

UserData ==
  PyDict([language |-> PyStr("en"), pushToken |-> PyStr("token"), pushMorning |-> PyBool(TRUE),
          device |-> PyStr("phone"), version |-> PyStr("1.0"), buildversion |-> PyStr("100"),
          vigilance |-> PyDict([level |-> PyInt(2), typeRain |-> PyBool(TRUE),
                                zoneNorth |-> PyBool(TRUE), zoneSouth |-> PyBool(FALSE)])])

UserEdits ==
  {<<<<"pushToken">>, x>> : x \in {PyStr(""), StrOfLen(49), StrOfLen(50), StrOfLen(51)}}
  \cup {<<<<"push_token">>, PyStr("token")>>, <<<<"vigilance", "level">>, PyInt(3)>>}

\* the decoded bodies tried against a response model
ModelInputs(m) ==
  CASE m = "ATCReport" -> Variants(AtcReportData, AtcReportEdits)
    [] m = "Bookmarks" -> Variants(BookmarksData, BookmarksEdits)
    [] m = "ObservationMetadataResponse" ->
         Variants(MetadataData, MetadataEdits)
         \cup {Put(Del(MetadataData, <<"totalItemCount">>), <<"total_item_count">>, PyInt(7)),
               Put(Del(MetadataData, <<"docUrl">>), <<"doc_url">>, PyStr("/redoc"))}
    [] m = "ObservationResponse" -> Variants(ObservationsData, ObservationsEdits)
    [] m = "WeatherResponse" -> Variants(WeatherData, WeatherEdits)
    [] m = "InObservation" -> Variants(InObservationData, InObservationEdits)
    [] m = "User" -> Variants(UserData, UserEdits)
    [] OTHER -> {}

\* bodies that fit no schema: an error document, texts that are no JSON, JSON scalars and lists
OtherBodies ==
  {JsonText(PyDict([detail |-> PyStr("Not Found")])), PlainText("<html>Not Found</html>"),
   PlainText(""), JsonText(EmptyList), JsonText(PyStr("Observation added")),
   JsonText(PyList(<<PyDict([id |-> PyStr("06590"), name |-> PyStr("Findel")])>>))}

\* the status codes a response is tried with
StatusCodes == {100, 200, 201, 204, 301, 400, 404, 422, 500, 503}

\* the responses the transport may give to a call: any status with any of the
\* other bodies, and a success status with any body aimed at the call's schema
Responses(response_model) ==
  {Response(st, b) : st \in StatusCodes, b \in OtherBodies}
  \cup {Response(st, JsonText(v)) : st \in {200, 201, 204, 404, 500}, v \in {AtcReportData}}
  \cup {Response(st, JsonText(v)) : st \in {200, 201}, v \in ModelInputs(response_model)}


(***************************************************************************)
(* The client.                                                             *)
(***************************************************************************)
\* str(x) of a number, as the endpoint methods apply it to query parameters
str(x) ==
  IF x.t = "int" THEN PyStr(ToString(x.i))
  ELSE LET a == IF x.m < 0 THEN -x.m ELSE x.m
           d1 == (a % 1000) \div 100
           d2 == (a % 100) \div 10
           d3 == a % 10
       IN PyStr((IF x.m < 0 THEN "-" ELSE "") \o ToString(a \div 1000) \o "."
                \o ToString(d1)
                \o (IF d2 # 0 \/ d3 # 0 THEN ToString(d2) ELSE "")
                \o (IF d3 # 0 THEN ToString(d3) ELSE ""))

\* the params dict an endpoint method builds: the given arguments, as strings
Params(args) ==
  PyDict([x \in {y \in DOMAIN args : args[y].t # "NoneType"} |->
            IF args[x].t = "str" THEN args[x] ELSE str(args[x])])

NoParams == PyNone
NoJson == PyNone
NoCall == [via |-> "none"]
NoModel == [schema |-> "None"]

\* return await self._request(method, endpoint, response_model=..., params=..., json=...)
RequestCall(method, endpoint, response_model, params, json) ==
  [via |-> "_request", method |-> method, url |-> base_url \o endpoint,
   response_model |-> response_model, params |-> params, json |-> json,
   result |-> "returned"]

\* what the endpoint method hands to its caller when _request ends with out:
\* update_user awaits _request without returning its value, and so returns None
endpoint_result(c, out) ==
  IF c.result = "dropped" /\ out.kind = "return" THEN Return(PyNone) ELSE out

\* self.client.request(...) / self.client.get(...): the request goes to the
\* transport and the call is suspended until the transport answers
client_request(c) ==
  /\ pc \in {"idle", "done"}
  /\ pc' = "awaiting"
  /\ call' = c
  /\ requests' = 1
  /\ response' = NoResponse
  /\ outcome' = NoOutcome
  /\ vin' = NoModel
  /\ vout' = NoModel
  /\ record' = PyNone
  /\ UNCHANGED <<base_url, conc>>

get_atc_report ==
  client_request(RequestCall("GET", "/atc/report", "ATCReport", NoParams, NoJson))

get_observations_hvd ==
  client_request(RequestCall("GET", "/hvd/observations", "ObservationResponse", NoParams, NoJson))

get_observations_metadata_hvd ==
  client_request(RequestCall("GET", "/hvd/observations/metadata",
                             "ObservationMetadataResponse", NoParams, NoJson))

StationIds == {"06590", "unknown"}

get_station_information_hvd ==
  \E station_id \in StationIds :
    client_request(RequestCall("GET", "/hvd/stations/" \o station_id, "None", NoParams, NoJson))

get_all_station_information_hvd ==
  client_request(RequestCall("GET", "/hvd/stations", "None", NoParams, NoJson))

\* the arguments get_weather and get_bookmarks are tried with
WeatherArgs ==
  {[langcode |-> PyStr("fr"), city |-> PyNone, lat |-> PyNone, long |-> PyNone],
   [langcode |-> PyStr("en"), city |-> PyInt(1), lat |-> PyFloat(49500), long |-> PyFloat(6125)]}

get_weather ==
  \E args \in WeatherArgs :
    client_request(RequestCall("GET", "/metapp/weather", "WeatherResponse", Params(args), NoJson))

update_user ==
  /\ vin.schema = "User"
  /\ vout.ok
  /\ client_request([RequestCall("POST", "/metapp/user", "None", NoParams,
                                 model_dump(vout.val, TRUE))
                        EXCEPT !.result = "dropped"])

BookmarksArgs ==
  {[langcode |-> PyStr("fr"), lat |-> PyNone, long |-> PyNone],
   [langcode |-> PyStr("en"), lat |-> PyFloat(49500), long |-> PyFloat(-6000)]}

get_bookmarks ==
  \E args \in BookmarksArgs :
    client_request(RequestCall("GET", "/metapp/bookmarks", "Bookmarks", Params(args), NoJson))

get_interface_texts ==
  \E lang \in {"fr", "de", "en", "lb"} :
    client_request(RequestCall("GET", "/metapp/text", "None",
                               Params([lang |-> PyStr(lang)]), NoJson))

\* self.client.get(endpoint, timeout=10.0) of stream_image
ImageCall(filename) ==
  [via |-> "client.get", method |-> "GET", url |-> base_url \o "/metapp/image/" \o filename,
   response_model |-> "None", params |-> NoParams, json |-> NoJson,
   result |-> "returned"]

stream_image ==
  \E filename \in {"radar.png"} : client_request(ImageCall(filename))

get_observations_metapp ==
  client_request(RequestCall("GET", "/metapp/observations", "None", NoParams, NoJson))

add_observation ==
  /\ vin.schema = "InObservation"
  /\ vout.ok
  /\ client_request(RequestCall("POST", "/metapp/observation", "None", NoParams,
                                model_dump(vout.val, FALSE)))

\* the caller builds the request model an endpoint method takes: User(...), InObservation(...)
Construct ==
  /\ pc = "idle"
  /\ vin = NoModel
  /\ \E m \in {"User", "InObservation"} : \E raw \in ModelInputs(m) :
       /\ vin' = [schema |-> m, raw |-> raw]
       /\ vout' = model_validate(m, raw)
  /\ UNCHANGED <<pc, call, response, outcome, requests, base_url, record, conc>>

\* the value the caller assigns to a field of a record: None, which no
\* required field accepts
AssignValues == {PyNone}

\* number of fields in which the record held differs from the record as returned
Reassigned ==
  Cardinality({name \in DOMAIN record.f : record.f[name] # outcome.val.f[name]})

\* record.name = value, by the caller on the record a call returned: the
\* classes of models.py set no model_config, so that BaseModel.__setattr__
\* stores the value (not frozen) as it is (no validate_assignment)
setattr ==
  /\ pc = "done"
  /\ record.t = "model"
  /\ Reassigned < MaxAssign
  /\ \E name \in DOMAIN record.f : \E value \in AssignValues :
       record' = [record EXCEPT !.f[name] = value]
  /\ UNCHANGED <<pc, call, response, outcome, requests, base_url, vin, vout, conc>>

\* the object a call through _request hands to its caller
returned(via, out) ==
  IF via = "_request" /\ out.kind = "return" THEN out.val ELSE PyNone

\* the transport answers the suspended call with a response: the call resumes and ends
TransportResponds ==
  /\ pc = "awaiting"
  /\ \E resp \in Responses(call.response_model) :
       /\ response' = resp
       /\ outcome' = IF call.via = "_request"
                     THEN endpoint_result(call, request_result(call.response_model, resp))
                     ELSE stream_image_result(resp)
       /\ record' = returned(call.via, outcome')
  /\ pc' = "done"
  /\ UNCHANGED <<call, requests, base_url, vin, vout, conc>>

\* the transport fails (connection refused, timeout): the call resumes with the exception
TransportFails ==
  /\ pc = "awaiting"
  /\ \E cls \in RequestErrors :
       LET after == except_RequestError(RequestError(cls), requests)
       IN /\ response' = TransportFailure(RequestError(cls))
          /\ pc' = after.pc
          /\ outcome' = after.outcome
          /\ requests' = after.requests
  /\ UNCHANGED <<call, base_url, vin, vout, record, conc>>

(***************************************************************************)
(* Concurrent calls on one client.  Each task runs one endpoint method;    *)
(* its locals (the coroutine frame of _request or stream_image) are its    *)
(* own, self.base_url and self.client are shared.  A call is suspended at  *)
(* its await until the transport has delivered an answer and the event     *)
(* loop resumes the task; other tasks run in between.                      *)
(***************************************************************************)
\* number of concurrent tasks
NTasks == 2
Tasks == 1..NTasks

IdleFrame == [pc |-> "idle", call |-> NoCall, response |-> NoResponse, outcome |-> NoOutcome]

\* what httpx raises when a request is sent on a closed client
ClientClosedError == [cls |-> "RuntimeError"]

\* the calls the concurrent tasks make
ConcCalls ==
  {RequestCall("GET", "/atc/report", "ATCReport", NoParams, NoJson),
   RequestCall("GET", "/hvd/stations", "None", NoParams, NoJson),
   ImageCall("radar.png")}

\* the answers of the transport to them
ConcResponses ==
  {Response(st, b) : st \in {200, 204, 404},
                     b \in {JsonText(AtcReportData), PlainText("<html>Not Found</html>")}}
  \cup {TransportFailure(RequestError("httpx.ReadTimeout"))}

\* variant: the answer kept in an attribute of the client that the tasks share
await_result_shared(fr, t) ==
  fr[CHOOSE u \in Tasks : fr[u].pc = "received"].response

\* response = await self.client.request(...): the answer delivered to this task
await_result(fr, t) == fr[t].response

\* the rest of the call once the task is resumed with answer r
resume_result(c, r) ==
  IF r.kind = "failure" THEN Raise(r.exc)
  ELSE IF c.via = "_request" THEN endpoint_result(c, request_result(c.response_model, r))
  ELSE stream_image_result(r)

\* task t calls an endpoint method: the request goes to the transport and
\* the task is suspended, or the client is closed and refuses the request
Start(t) ==
  /\ frames[t].pc = "idle"
  /\ \E c \in ConcCalls :
       frames' = [frames EXCEPT ![t] =
                    IF closed
                    THEN [IdleFrame EXCEPT !.pc = "done", !.call = c,
                                           !.outcome = Raise(ClientClosedError)]
                    ELSE [IdleFrame EXCEPT !.pc = "awaiting", !.call = c]]
  /\ UNCHANGED <<base_url, closed, seq>>

\* the transport has the answer to the request of task t
Deliver(t) ==
  /\ frames[t].pc = "awaiting"
  /\ \E r \in ConcResponses :
       frames' = [frames EXCEPT ![t].pc = "received", ![t].response = r]
  /\ UNCHANGED <<base_url, closed, seq>>

\* the event loop resumes task t, which runs to its end
Resume(t) ==
  /\ frames[t].pc = "received"
  /\ frames' = [frames EXCEPT ![t].pc = "done",
                              ![t].outcome = resume_result(frames[t].call,
                                                           await_result(frames, t))]
  /\ UNCHANGED <<base_url, closed, seq>>

\* AsyncMeteoLuxClient.close: await self.client.aclose(), whatever the calls in flight
close ==
  /\ closed' = TRUE
  /\ UNCHANGED <<base_url, frames, seq>>

ConcNext ==
  \/ \E t \in Tasks : Start(t)
  \/ \E t \in Tasks : Deliver(t)
  \/ \E t \in Tasks : Resume(t)
  \/ close

\* AsyncMeteoLuxClient.__init__
Init ==
  /\ base_url = "https://metapi.ana.lu/api/v1"
  /\ pc = "idle"
  /\ call = NoCall
  /\ response = NoResponse
  /\ outcome = NoOutcome
  /\ requests = 0
  /\ vin = NoModel
  /\ vout = NoModel
  /\ record = PyNone
  /\ frames = [t \in Tasks |-> IdleFrame]
  /\ closed = FALSE

Next ==
  \/ get_atc_report
  \/ get_observations_hvd
  \/ get_observations_metadata_hvd
  \/ get_station_information_hvd
  \/ get_all_station_information_hvd
  \/ get_weather
  \/ update_user
  \/ get_bookmarks
  \/ get_interface_texts
  \/ stream_image
  \/ get_observations_metapp
  \/ add_observation
  \/ Construct
  \/ setattr
  \/ TransportResponds
  \/ TransportFails

Spec == Init /\ [][Next]_vars

\* several callers at once, and the teardown of the session
ConcSpec == Init /\ [][ConcNext]_vars

TypeOK ==
  /\ pc \in {"idle", "awaiting", "done"}
  /\ requests \in {0, 1}
  /\ closed \in BOOLEAN
  /\ \A t \in Tasks : frames[t].pc \in {"idle", "awaiting", "received", "done"}

(***************************************************************************)
(* Properties.                                                             *)
(***************************************************************************)
\* a call through _request has ended on a response of the transport
Answered == pc = "done" /\ call.via = "_request" /\ response.kind = "response"
\* ... with a success status other than 204, so that the body is parsed
Parsed == Answered /\ is_success(response.status_code) /\ response.status_code # 204
\* ... and the body is JSON and a response model was given, so that it is validated
Validated == Parsed /\ response.text.fmt = "json" /\ call.response_model # "None"

\* the validations whose result the state shows, as [schema, raw, result]: that
\* of the response just parsed, and that of the request model the caller built
Validations ==
  (IF Validated
   THEN {[schema |-> call.response_model, raw |-> response.text.v,
          result |-> IF outcome.kind = "return" THEN Ok(outcome.val)
                     ELSE Errs(outcome.exc.errors)]}
   ELSE {})
  \cup (IF vin # NoModel THEN {[schema |-> vin.schema, raw |-> vin.raw, result |-> vout]}
        ELSE {})

\* C1: a 404 response to a call through _request ends the call with NotFoundError
\* whose detail is the raw text of the response body, whatever the body is and
\* whether or not a response model was given.
C1_NotFoundDetail ==
  (Answered /\ response.status_code = 404)
    => outcome = Raise(NotFoundError(response.text))

C1_Witness ==
  /\ Answered
  /\ response.status_code = 404
  /\ response.text.fmt = "text"
  /\ call.response_model # "None"
  /\ outcome.kind = "raise"
  /\ outcome.exc.detail = response.text

\* C2: a 204 response makes _request return None whatever the body is and whether
\* or not a response model was given: the body is neither decoded nor validated.
C2_NoContent ==
  (Answered /\ response.status_code = 204) => outcome = Return(PyNone)

C2_Witness ==
  /\ Answered
  /\ response.status_code = 204
  /\ response.text.fmt = "text"
  /\ call.response_model # "None"
  /\ outcome = Return(PyNone)

\* a client or server error status other than 404
OtherError ==
  Answered /\ response.status_code >= 400 /\ response.status_code <= 599
    /\ response.status_code # 404

\* C3 as stated: an error status other than 404 ends the call with the library's
\* HTTPError carrying the status code and the body text as detail.
C3_Original ==
  OtherError => outcome = Raise(HTTPError(response.status_code, response.text))

\* C3 as amended: an error status other than 404 ends the call with the
\* httpx.HTTPStatusError of raise_for_status, re-raised unchanged, whose response
\* carries the status code and the body text; never with a class of exceptions.py.
C3_Amended ==
  OtherError =>
    /\ outcome.kind = "raise"
    /\ outcome.exc.cls = "httpx.HTTPStatusError"
    /\ outcome.exc.cls \notin MeteoLuxError
    /\ outcome.exc.response.status_code = response.status_code
    /\ outcome.exc.response.text = response.text

C3_Witness ==
  /\ OtherError
  /\ response.status_code = 500
  /\ outcome.kind = "raise"
  /\ outcome.exc.cls = "httpx.HTTPStatusError"
  /\ outcome.exc.response.status_code = 500

\* C4 as stated: when the decoded body of a success response does not satisfy the
\* response model, the call fails with the library's own ValidationError (a
\* MeteoLuxError) and returns no record.
C4_Wrapped ==
  (Validated /\ ~model_validate(call.response_model, response.text.v).ok)
    => /\ outcome.kind = "raise"
       /\ outcome.exc.cls = "meteolux.exceptions.ValidationError"

\* C5: when the body of a success response (other than 204) is no JSON, the call
\* fails with the decoder's error, with or without a response model, and returns
\* no value.
C5_Malformed ==
  (Parsed /\ response.text.fmt # "json") => outcome = Raise(JSONDecodeError)

C5_Witness ==
  /\ Parsed
  /\ response.text.fmt = "text"
  /\ call.response_model = "None"
  /\ outcome = Raise(JSONDecodeError)

\* C6: every call issues exactly one transport request and then ends by
\* returning or raising, whatever the transport answers; a transport failure is
\* raised to the caller as the httpx.RequestError it is, with no second request.
C6_OneRequest ==
  /\ [](pc \in {"awaiting", "done"} => requests = 1)
  /\ [](pc = "done" => outcome.kind \in {"return", "raise"})
  /\ []((pc = "done" /\ response.kind = "failure") => outcome = Raise(response.exc))
  /\ [][pc = "awaiting" => (pc' = "done" /\ requests' = requests)]_vars

C6_Witness ==
  /\ pc = "done"
  /\ response.kind = "failure"
  /\ requests = 1
  /\ outcome.kind = "raise"
  /\ outcome.exc.cls \in RequestErrors


\* whether a value is within the constraints of a field
Within(cons, v) ==
  \A c \in cons :
    CASE c.c = "ge" -> Milli(v) >= c.x
      [] c.c = "le" -> Milli(v) <= c.x
      [] c.c = "min_length" -> v.n >= c.x
      [] c.c = "max_length" -> v.n <= c.x

\* whether a decoded JSON value satisfies a type of the schema: every required
\* field present, every value of the declared JSON type and within its constraints
RECURSIVE Conforms(_, _)
Conforms(ty, v) ==
  CASE ty.k = "int" -> v.t = "int"
    [] ty.k = "float" -> v.t \in {"int", "float"}
    [] ty.k = "str" -> v.t = "str"
    [] ty.k = "bool" -> v.t = "bool"
    [] ty.k = "datetime" -> v.t = "str" /\ ParseDatetime(v.s).ok
    [] ty.k = "date" -> v.t = "str" /\ ParseDate(v.s).ok
    [] ty.k = "literal" -> v \in ty.vals
    [] ty.k = "optional" -> v.t = "NoneType" \/ Conforms(ty.e, v)
    [] ty.k = "union" -> \E i \in DOMAIN ty.alts : Conforms(ty.alts[i], v)
    [] ty.k = "list" -> v.t = "list" /\ \A i \in 1..Len(v.l) : Conforms(ty.e, v.l[i])
    [] ty.k = "dict" -> v.t = "dict" /\ \A x \in DOMAIN v.o : Conforms(ty.e, v.o[x])
    [] ty.k = "model" ->
         /\ v.t = "dict"
         /\ \A i \in DOMAIN Fields(ty.m) :
              LET f == Fields(ty.m)[i]
              IN IF f.alias \in DOMAIN v.o
                 THEN Conforms(f.type, v.o[f.alias]) /\ Within(f.cons, v.o[f.alias])
                 ELSE ~f.required

\* whether a validated value holds the input value: numbers by their value,
\* datetimes and dates by what the input text denotes, records field by field
\* under the wire name of each field
RECURSIVE Holds(_, _)
Holds(raw, rec) ==
  CASE rec.t \in {"int", "float"} -> raw.t \in {"int", "float"} /\ Milli(raw) = Milli(rec)
    [] rec.t = "datetime" -> raw.t = "str" /\ ParseDatetime(raw.s) = Ok(rec)
    [] rec.t = "date" -> raw.t = "str" /\ ParseDate(raw.s) = Ok(rec)
    [] rec.t = "list" ->
         /\ raw.t = "list"
         /\ Len(raw.l) = Len(rec.l)
         /\ \A i \in 1..Len(rec.l) : Holds(raw.l[i], rec.l[i])
    [] rec.t = "dict" ->
         /\ raw.t = "dict"
         /\ DOMAIN raw.o = DOMAIN rec.o
         /\ \A x \in DOMAIN rec.o : Holds(raw.o[x], rec.o[x])
    [] rec.t = "model" ->
         /\ raw.t = "dict"
         /\ DOMAIN rec.f = {Fields(rec.cls)[i].name : i \in DOMAIN Fields(rec.cls)}
         /\ \A i \in DOMAIN Fields(rec.cls) :
              LET f == Fields(rec.cls)[i]
              IN f.alias \in DOMAIN raw.o => Holds(raw.o[f.alias], rec.f[f.name])
    [] OTHER -> raw = rec

\* C7: a success response whose body satisfies the response model yields a record
\* of that model in which every declared field holds the input value found under
\* its wire name, through nested records and lists; undeclared keys are ignored.
C7_RecordHoldsInput ==
  (Validated /\ Conforms(TModel(call.response_model), response.text.v))
    => /\ outcome.kind = "return"
       /\ outcome.val.t = "model"
       /\ outcome.val.cls = call.response_model
       /\ Holds(response.text.v, outcome.val)

C7_Witness ==
  /\ Validated
  /\ call.response_model = "ObservationMetadataResponse"
  /\ Conforms(TModel("ObservationMetadataResponse"), response.text.v)
  /\ "totalItemCount" \in DOMAIN response.text.v.o
  /\ response.text.v.o.totalItemCount = PyInt(7)
  /\ outcome.kind = "return"
  /\ outcome.val.f.total_item_count = PyInt(7)
  /\ outcome.val.f.data.l[1].f.name = PyStr("Air Temperature")

\* the locations at which an object lacks a required field, at the top level or
\* in a nested or list-element object
RECURSIVE MissingRequired(_, _, _)
MissingRequired(ty, v, loc) ==
  CASE ty.k = "model" /\ v.t = "dict" ->
         UNION {LET f == Fields(ty.m)[i]
                IN IF f.alias \in DOMAIN v.o
                   THEN MissingRequired(f.type, v.o[f.alias], loc \o <<f.alias>>)
                   ELSE IF f.required THEN {loc \o <<f.alias>>} ELSE {}
                : i \in DOMAIN Fields(ty.m)}
    [] ty.k = "list" /\ v.t = "list" ->
         UNION {MissingRequired(ty.e, v.l[i], loc \o <<IdxStr(i - 1)>>) : i \in 1..Len(v.l)}
    [] ty.k = "optional" /\ v.t # "NoneType" -> MissingRequired(ty.e, v, loc)
    [] OTHER -> {}

\* C8: an object that lacks a required field, at the top level or in a nested or
\* list-element object, fails validation with an error of type missing that names
\* the field by its location, and no record is produced.
C8_MissingField ==
  \A x \in Validations :
    \A loc \in MissingRequired(TModel(x.schema), x.raw, <<>>) :
      /\ ~x.result.ok
      /\ [type |-> "missing", loc |-> loc] \in x.result.errs

C8_Witness ==
  /\ Validated
  /\ call.response_model = "ATCReport"
  /\ <<"forecast", "hourly", "0", "wind", "speed">>
       \in MissingRequired(TModel("ATCReport"), response.text.v, <<>>)
  /\ outcome.kind = "raise"
  /\ [type |-> "missing", loc |-> <<"forecast", "hourly", "0", "wind", "speed">>]
       \in outcome.exc.errors

\* the constrained fields present in an object with a value of the declared kind
\* (a number for ge/le, a string for the lengths), as [loc, cons, val]
RECURSIVE ConstrainedValues(_, _, _)
ConstrainedValues(ty, v, loc) ==
  CASE ty.k = "model" /\ v.t = "dict" ->
         UNION {LET f == Fields(ty.m)[i]
                    x == v.o[f.alias]
                    here == IF /\ f.cons # {}
                               /\ \/ f.type.k = "int" /\ (x.t = "int" \/ (x.t = "float" /\ x.m % 1000 = 0))
                                  \/ f.type.k = "float" /\ x.t \in {"int", "float"}
                                  \/ f.type.k = "str" /\ x.t = "str"
                            THEN {[loc |-> loc \o <<f.alias>>, cons |-> f.cons, val |-> x]}
                            ELSE {}
                IN IF f.alias \in DOMAIN v.o
                   THEN here \cup ConstrainedValues(f.type, x, loc \o <<f.alias>>)
                   ELSE {}
                : i \in DOMAIN Fields(ty.m)}
    [] ty.k = "list" /\ v.t = "list" ->
         UNION {ConstrainedValues(ty.e, v.l[i], loc \o <<IdxStr(i - 1)>>) : i \in 1..Len(v.l)}
    [] ty.k = "optional" /\ v.t # "NoneType" -> ConstrainedValues(ty.e, v, loc)
    [] OTHER -> {}

ConstraintErrors ==
  {"greater_than_equal", "less_than_equal", "string_too_short", "string_too_long"}

\* C9: a constrained field whose value is outside its numeric range (ge, le) or
\* its length (min_length, max_length), even by one step, fails validation with a
\* constraint error at that field; a value within the bounds, the bounds
\* themselves included, draws no error at that field.
C9_Constraints ==
  \A x \in Validations :
    \A cv \in ConstrainedValues(TModel(x.schema), x.raw, <<>>) :
      IF Within(cv.cons, cv.val)
      THEN x.result.ok \/ \A e \in x.result.errs : e.loc # cv.loc
      ELSE /\ ~x.result.ok
           /\ \E e \in x.result.errs : e.loc = cv.loc /\ e.type \in ConstraintErrors

C9_Witness ==
  /\ vin.schema = "InObservation"
  /\ vin.raw = Put(InObservationData, <<"lat">>, PyFloat(90001))
  /\ ~vout.ok
  /\ [type |-> "less_than_equal", loc |-> <<"lat">>] \in vout.errs

\* the union-typed fields present in an object, as [loc, alts, val]
RECURSIVE UnionValues(_, _, _)
UnionValues(ty, v, loc) ==
  CASE ty.k = "model" /\ v.t = "dict" ->
         UNION {LET f == Fields(ty.m)[i]
                IN IF f.alias \in DOMAIN v.o
                   THEN UnionValues(f.type, v.o[f.alias], loc \o <<f.alias>>)
                   ELSE {}
                : i \in DOMAIN Fields(ty.m)}
    [] ty.k = "list" /\ v.t = "list" ->
         UNION {UnionValues(ty.e, v.l[i], loc \o <<IdxStr(i - 1)>>) : i \in 1..Len(v.l)}
    [] ty.k = "optional" /\ v.t # "NoneType" -> UnionValues(ty.e, v, loc)
    [] ty.k = "union" -> {[loc |-> loc, alts |-> ty.alts, val |-> v]}
    [] OTHER -> {}

\* whether a JSON value has the structure of a union member
RECURSIVE Structural(_, _)
Structural(ty, v) ==
  CASE ty.k = "int" -> v.t = "int"
    [] ty.k = "float" -> v.t = "float"
    [] ty.k = "str" -> v.t = "str"
    [] ty.k = "date" -> v.t = "str" /\ ParseDate(v.s).ok
    [] ty.k = "list" -> v.t = "list" /\ \A i \in 1..Len(v.l) : Structural(ty.e, v.l[i])
    [] OTHER -> FALSE

\* the value a validated record holds for the field at a location of the input
RECURSIVE RecordAt(_, _)
RecordAt(rec, loc) ==
  IF loc = <<>> THEN rec
  ELSE CASE rec.t = "model" ->
              LET fs == Fields(rec.cls)
                  i == CHOOSE j \in DOMAIN fs : fs[j].alias = Head(loc)
              IN RecordAt(rec.f[fs[i].name], Tail(loc))
         [] rec.t = "list" -> RecordAt(rec.l[IdxOf(Head(loc)) + 1], Tail(loc))
         [] rec.t = "dict" -> RecordAt(rec.o[Head(loc)], Tail(loc))

IsPrefix(a, b) == Len(a) <= Len(b) /\ SubSeq(b, 1, Len(a)) = a

\* C10: a union-typed field accepts the member its input has the structure of (no
\* error at the field), and the record holds the input as a value of that member,
\* its runtime type telling which member matched; it is never turned into a value
\* of the other member.
C10_Union ==
  \A x \in Validations :
    \A u \in UnionValues(TModel(x.schema), x.raw, <<>>) :
      \A i \in DOMAIN u.alts :
        Structural(u.alts[i], u.val) =>
          IF x.result.ok
          THEN /\ RecordAt(x.result.val, u.loc).t = u.alts[i].k
               /\ Holds(u.val, RecordAt(x.result.val, u.loc))
          ELSE \A e \in x.result.errs : ~IsPrefix(u.loc, e.loc)

C10_Witness ==
  /\ Validated
  /\ call.response_model = "WeatherResponse"
  /\ outcome.kind = "return"
  /\ response.text.v = Put(WeatherData, <<"forecast", "current", "temperature", "temperature">>,
                           PyList(<<PyInt(25)>>))
  /\ outcome.val.f.forecast.f.current.f.temperature.f.temperature = PyList(<<PyInt(25)>>)
  /\ outcome.val.f.forecast.f.daily.l[1].f.temperature_max.f.temperature = PyInt(27)
  /\ outcome.val.f.road_status.l[1].f.date = PyDate(2025, 8, 2)

(***************************************************************************)
(* C11.  A validated record returned by the executor is immutable: once    *)
(* the call has returned it, the record the caller holds keeps the field   *)
(* values it was created with, whatever the caller does with it, assigning *)
(* to one of its fields included.                                          *)
(***************************************************************************)
C11_Immutable ==
  (Validated /\ outcome.kind = "return") => record = outcome.val

(***************************************************************************)
(* C12.  stream_image returns the response of the transport as it is, for  *)
(* every status (204, 404 and 5xx included): it raises neither            *)
(* NotFoundError nor HTTPError nor a status error, decodes no JSON and     *)
(* validates nothing; it fails only when the transport fails, with the     *)
(* transport's exception.                                                  *)
(***************************************************************************)
Streamed == pc = "done" /\ call.via = "client.get"

C12_StreamRaw ==
  Streamed =>
    /\ response.kind = "response" => outcome = [kind |-> "return", val |-> response]
    /\ response.kind = "failure" => outcome = [kind |-> "raise", exc |-> response.exc]
    /\ outcome.kind = "raise" => response.kind = "failure"

\* an image request answered 404 with a body that is no JSON: the response is returned
C12_Witness ==
  /\ Streamed
  /\ response.kind = "response"
  /\ response.status_code = 404
  /\ response.text.fmt = "text"
  /\ outcome.kind = "return"
  /\ outcome.val.status_code = 404

(***************************************************************************)
(* C15.  The classification by status is total, exclusive and comes before *)
(* the body is looked at: every response received ends the call in exactly *)
(* one way; a status outside 200..299 (4xx and 5xx, and 1xx and 3xx too)   *)
(* makes the call fail with the error of that status, whatever the body,   *)
(* which is neither decoded nor validated; a value (None, the decoded JSON *)
(* or a record) is returned only for a status in 200..299.                 *)
(***************************************************************************)
C15_StatusFirst ==
  Answered =>
    LET st == response.status_code
    IN /\ outcome.kind \in {"return", "raise"}
       /\ outcome.kind = "return" => st \in 200..299
       /\ st \notin 200..299 =>
            /\ outcome.kind = "raise"
            /\ outcome.exc.cls \in {"meteolux.exceptions.NotFoundError", "httpx.HTTPStatusError"}
            /\ outcome.exc.cls = "meteolux.exceptions.NotFoundError" <=> st = 404
            /\ st = 404 => outcome.exc.detail = response.text
            /\ st # 404 => outcome.exc.response = response
       /\ st = 204 => outcome = [kind |-> "return", val |-> PyNone]

\* a redirect whose body is no JSON, received by a call that has a response model
C15_Witness ==
  /\ Answered
  /\ call.response_model = "ATCReport"
  /\ response.status_code = 301
  /\ response.text.fmt = "text"
  /\ outcome.kind = "raise"
  /\ outcome.exc.cls = "httpx.HTTPStatusError"

(***************************************************************************)
(* C13.  Over any sequence of client operations the transport is never     *)
(* closed while a call that shares the session is suspended at its await:  *)
(* no call sees a closed transport between issuing its request and         *)
(* receiving the answer.                                                   *)
(***************************************************************************)
C13_NoCloseInFlight ==
  closed => \A t \in Tasks : frames[t].pc # "awaiting"

(***************************************************************************)
(* C14.  Calls that run concurrently on one client share no mutable state: *)
(* no step changes the base address, a step of one call leaves the locals  *)
(* of every other call as they are, and in every interleaving of their     *)
(* suspensions and resumptions a call that was answered ends as its own    *)
(* request and its own answer determine, as it would when run alone (a     *)
(* call that got no answer is one the closed client refused).              *)
(***************************************************************************)
\* how a call with request c ends when it runs alone and is answered r
Alone(c, r) ==
  CASE r.kind = "failure" -> [kind |-> "raise", exc |-> r.exc]
    [] r.kind = "response" /\ c.via = "client.get" -> [kind |-> "return", val |-> r]
    [] OTHER -> request_result(c.response_model, r)

C14_OwnOutcome ==
  \A t \in Tasks :
    frames[t].pc = "done" =>
      IF frames[t].response.kind = "none"
      THEN closed /\ frames[t].outcome = [kind |-> "raise", exc |-> ClientClosedError]
      ELSE frames[t].outcome = Alone(frames[t].call, frames[t].response)

C14_NoSharedState ==
  /\ []C14_OwnOutcome
  /\ [][base_url' = base_url]_vars
  /\ [][\A t \in Tasks : \A u \in Tasks \ {t} :
          frames'[t] # frames[t] => frames'[u] = frames[u]]_vars
  /\ [][\A t \in Tasks :
          frames[t].pc \in {"awaiting", "received", "done"} =>
            /\ frames'[t].call = frames[t].call
            /\ frames[t].pc \in {"received", "done"} =>
                 frames'[t].response = frames[t].response
            /\ frames[t].pc = "done" => frames'[t] = frames[t]]_vars

\* a call has ended on its own answer, a 404, while another call holds a
\* different answer that was delivered to it and waits to be resumed
C14_Witness ==
  /\ frames[1].pc = "done"
  /\ frames[1].call.via = "_request"
  /\ frames[1].response = Response(404, PlainText("<html>Not Found</html>"))
  /\ frames[1].outcome = [kind |-> "raise", exc |-> NotFoundError(PlainText("<html>Not Found</html>"))]
  /\ frames[2].pc = "received"
  /\ frames[2].response = Response(200, JsonText(AtcReportData))
====
